---- MODULE Spec2Model ----
(***************************************************************************)
(* A model of inline.py: the report of the functions a compiler inlined,   *)
(* read from the DWARF debug information of a binary.                      *)
(*                                                                         *)
(* Python values are modelled as follows.                                  *)
(*   - a string is a sequence of one-character strings;                    *)
(*   - an optional value is None (the empty sequence) or Some(v) (the      *)
(*     one-element sequence <<v>>);                                        *)
(*   - a DIE is a record [cu, offset, tag, attributes], cu the index of    *)
(*     its compilation unit in dwarf, offset its offset in .debug_info,    *)
(*     attributes a function from the names of the attributes the DIE      *)
(*     carries to their values;                                            *)
(*   - a compilation unit is a record [index, cu_offset, dies], index its  *)
(*     place in dwarf; dies[1] is its top DIE.                             *)
(***************************************************************************)
EXTENDS Integers, Sequences, FiniteSets, TLC

VARIABLES
    dwarf,      \* the debug information of the binary: a sequence of units
    args,       \* the parsed command line: [ignore, demangle, declaration]
    pc,         \* where the running operation stands
    exc,        \* the exception that ended the operation, "" when none did
    stdout,     \* the lines printed so far
    todo,       \* main: the FunctionInfos iter_inlined has still to visit
    inlined,    \* main: the set built from iter_inlined, in insertion order
    functions,  \* main: sorted(set(iter_inlined()))
    frame,      \* a property access: the frame of _get_attribute_recursive
    result,     \* a property access: the value of the property
    site        \* process: the call site at hand and the origin reached

vars == <<dwarf, args, pc, exc, stdout, todo, inlined, functions, frame,
          result, site>>

-----------------------------------------------------------------------------
(* Bounds of the model. *)

\* sys.getrecursionlimit() stands at 1000 frames; the model allows MaxDepth
\* nested calls of _get_attribute_recursive, more than any unit has DIEs.
MaxDepth == 4

\* Declaration lines run from 1 to MaxLine.
MaxLine == 2

-----------------------------------------------------------------------------
(* Python values. *)

None == <<>>
Some(v) == <<v>>
IsNone(o) == Len(o) = 0
Val(o) == o[1]

\* bool(o) of an optional integer: None and 0 are false.
TruthyInt(o) == ~IsNone(o) /\ Val(o) # 0

\* bool(o) of an optional string: None and "" are false.
TruthyStr(o) == ~IsNone(o) /\ Len(Val(o)) > 0

\* o or 0, of an optional integer.
OrZero(o) == IF TruthyInt(o) THEN Val(o) ELSE 0

\* ord(c) of the characters the model uses.
Ord(c) ==
    CASE c = "\n" -> 10 [] c = " " -> 32 [] c = "(" -> 40 [] c = ")" -> 41
      [] c = "." -> 46 [] c = "/" -> 47 [] c = "0" -> 48 [] c = "1" -> 49
      [] c = "2" -> 50 [] c = "3" -> 51 [] c = "4" -> 52 [] c = "5" -> 53
      [] c = "6" -> 54 [] c = "7" -> 55 [] c = "8" -> 56 [] c = "9" -> 57
      [] c = ":" -> 58 [] c = "N" -> 78 [] c = "a" -> 97 [] c = "b" -> 98
      [] c = "e" -> 101 [] c = "f" -> 102 [] c = "g" -> 103 [] c = "n" -> 110
      [] c = "o" -> 111 [] c = "u" -> 117 [] c = "v" -> 118 [] c = "w" -> 119
      [] c = "x" -> 120

\* s < t of two strings: the first differing character decides, and a proper
\* prefix is smaller.
StrLess(s, t) ==
    \E i \in 1..Len(t) :
        /\ \A j \in 1..(i - 1) : j <= Len(s) /\ s[j] = t[j]
        /\ \/ i = Len(s) + 1
           \/ i <= Len(s) /\ Ord(s[i]) < Ord(t[i])

\* s.startswith(p)
startswith(s, p) ==
    Len(p) <= Len(s) /\ \A i \in 1..Len(p) : s[i] = p[i]

\* startswith of the first of the prefixes only.
startswith_first(s, prefixes) == startswith(s, prefixes[1])

\* s.startswith(prefixes) of a tuple of prefixes
startswith_any(s, prefixes) ==
    \E k \in 1..Len(prefixes) : startswith(s, prefixes[k])

\* s.split(sep)
RECURSIVE split(_, _)
split(s, sep) ==
    IF \A i \in 1..Len(s) : s[i] # sep
    THEN <<s>>
    ELSE LET i == CHOOSE k \in 1..Len(s) :
                      s[k] = sep /\ \A j \in 1..(k - 1) : s[j] # sep
         IN  <<SubSeq(s, 1, i - 1)>> \o split(SubSeq(s, i + 1, Len(s)), sep)

\* sep.join(comps)
RECURSIVE str_join(_, _)
str_join(sep, comps) ==
    IF Len(comps) = 0 THEN <<>>
    ELSE IF Len(comps) = 1 THEN comps[1]
    ELSE comps[1] \o <<sep>> \o str_join(sep, Tail(comps))

\* s.strip(): the white space at both ends removed
RECURSIVE strip(_)
strip(s) ==
    IF Len(s) > 0 /\ s[1] \in {" ", "\n"} THEN strip(Tail(s))
    ELSE IF Len(s) > 0 /\ s[Len(s)] \in {" ", "\n"}
    THEN strip(SubSeq(s, 1, Len(s) - 1))
    ELSE s

\* '%i' % n, for n >= 0
RECURSIVE format_int(_)
format_int(n) ==
    LET digit == <<"0", "1", "2", "3", "4", "5", "6", "7", "8", "9">>
    IN  IF n < 10 THEN <<digit[n + 1]>>
        ELSE format_int(n \div 10) \o <<digit[(n % 10) + 1]>>

\* '%s' % o of an optional string: None prints as the word None
format_str(o) == IF IsNone(o) THEN <<"N", "o", "n", "e">> ELSE Val(o)

\* os.path.join(directory, filename)
path_join(directory, filename) ==
    IF Len(filename) > 0 /\ filename[1] = "/" THEN filename
    ELSE IF Len(directory) = 0 \/ directory[Len(directory)] = "/"
    THEN directory \o filename
    ELSE directory \o <<"/">> \o filename

\* The loop of os.path.normpath over the components of the path.
RECURSIVE norm_comps(_, _, _)
norm_comps(comps, new_comps, initial_slashes) ==
    IF Len(comps) = 0 THEN new_comps
    ELSE LET comp == Head(comps)
             dotdot == <<".", ".">>
         IN  IF comp = <<>> \/ comp = <<".">>
             THEN norm_comps(Tail(comps), new_comps, initial_slashes)
             ELSE IF \/ comp # dotdot
                     \/ (initial_slashes = 0 /\ Len(new_comps) = 0)
                     \/ (Len(new_comps) > 0 /\ new_comps[Len(new_comps)] = dotdot)
             THEN norm_comps(Tail(comps), Append(new_comps, comp), initial_slashes)
             ELSE IF Len(new_comps) > 0
             THEN norm_comps(Tail(comps),
                             SubSeq(new_comps, 1, Len(new_comps) - 1),
                             initial_slashes)
             ELSE norm_comps(Tail(comps), new_comps, initial_slashes)

\* os.path.normpath(path)
normpath(path) ==
    IF Len(path) = 0 THEN <<".">>
    ELSE LET initial_slashes ==
                 IF path[1] # "/" THEN 0
                 ELSE IF Len(path) >= 2 /\ path[2] = "/"
                         /\ ~(Len(path) >= 3 /\ path[3] = "/")
                 THEN 2 ELSE 1
             joined == str_join("/", norm_comps(split(path, "/"), <<>>,
                                               initial_slashes))
             out == [i \in 1..initial_slashes |-> "/"] \o joined
         IN  IF Len(out) = 0 THEN <<".">> ELSE out

-----------------------------------------------------------------------------
(* The DIE accessors. *)

\* get_attribute_value(die, attribute): the value, None when absent
get_attribute_value(die, attribute) ==
    IF attribute \in DOMAIN die.attributes
    THEN Some(die.attributes[attribute])
    ELSE None

\* get_die_at_offset with the offset taken from the start of the section,
\* not of the unit.
get_die_at_offset_unadjusted(cu, offset) ==
    LET hits == {i \in 1..Len(cu.dies) : cu.dies[i].offset = offset}
    IN  IF hits = {} THEN None
        ELSE Some(cu.dies[CHOOSE i \in hits : \A j \in hits : i <= j])

\* get_die_at_offset(cu, offset): the first DIE of the unit at that offset
\* from the unit's start, None when the unit has none.
get_die_at_offset(cu, offset) ==
    LET adjusted_offset == cu.cu_offset + offset
        hits == {i \in 1..Len(cu.dies) : cu.dies[i].offset = adjusted_offset}
    IN  IF hits = {} THEN None
        ELSE Some(cu.dies[CHOOSE i \in hits : \A j \in hits : i <= j])

\* cu.get_top_DIE()
get_top_DIE(cu) == cu.dies[1]

\* dwarf.line_program_for_CU(cu).header: the file table of the unit and its
\* include directories. In the first unit file 1 is a, in the compilation
\* directory, and file 2 is x in /u; in the second, file 1 is the same x,
\* spelled ../../u/./x from the compilation directory, and file 2 is a in
\* /uv/.
line_program_for_CU(cu) ==
    IF cu.index = 1
    THEN [file_entry |-> <<[name |-> <<"a">>, dir_index |-> 0],
                           [name |-> <<"x">>, dir_index |-> 1]>>,
          include_directory |-> << <<"/", "u">> >>]
    ELSE [file_entry |-> <<[name |-> <<".", ".", "/", ".", ".", "/", "u", "/",
                                       ".", "/", "x">>, dir_index |-> 0],
                           [name |-> <<"a">>, dir_index |-> 1]>>,
          include_directory |-> << <<"/", "u", "v", "/">> >>]

\* get_filename(cu, file_idx): the normalised path of the file_idx-th entry
\* of the unit's file table, None for index 0.
get_filename(cu, file_idx) ==
    IF file_idx = 0 THEN None
    ELSE LET top_die == get_top_DIE(cu)
             lp == line_program_for_CU(cu)
             file_entry == lp.file_entry[(file_idx - 1) + 1]
             filename == file_entry.name
             dir_index == file_entry.dir_index
             directory ==
                 IF dir_index # 0
                 THEN lp.include_directory[(dir_index - 1) + 1]
                 ELSE top_die.attributes["DW_AT_comp_dir"]
         IN  Some(normpath(path_join(directory, filename)))

\* get_coords_file(die, attr)
get_coords_file(die, attr) ==
    IF attr \notin DOMAIN die.attributes THEN None
    ELSE get_filename(dwarf[die.cu], die.attributes[attr])

\* get_die_call_file(die)
get_die_call_file(die) == get_coords_file(die, "DW_AT_call_file")

-----------------------------------------------------------------------------
(* FunctionInfo.  A FunctionInfo is named by its DIE; what its cached       *)
(* properties hold is a function of the DIE and the unit, computed below.   *)

\* FunctionInfo.specification: the DIE the DW_AT_specification attribute
\* refers to, None when the attribute is absent or 0, and None with a
\* warning (the offset printed) when the unit has no DIE at the offset.
specification(die) ==
    LET offset == get_attribute_value(die, "DW_AT_specification")
    IN  IF ~TruthyInt(offset)
        THEN [die |-> None, warning |-> None]
        ELSE LET found == get_die_at_offset(dwarf[die.cu], Val(offset))
             IN  IF ~IsNone(found)
                 THEN [die |-> found, warning |-> None]
                 ELSE [die |-> None, warning |-> offset]

\* _get_attribute_recursive asking the specification before the DIE itself.
attribute_frame_specification_first(die, name) ==
    LET spec == specification(die)
    IN  IF ~IsNone(spec.die)
        THEN [kind |-> "recurse", attribute |-> None,
              spec |-> spec.die, warning |-> None]
        ELSE [kind |-> "return", attribute |-> get_attribute_value(die, name),
              spec |-> None, warning |-> spec.warning]

\* One call of FunctionInfo._get_attribute_recursive, up to its recursive
\* call: it returns the DIE's own attribute (an AttributeValue is a
\* non-empty tuple, true whatever its value), or recurses into the
\* specification, or returns None.
attribute_frame(die, name) ==
    IF name \in DOMAIN die.attributes
    THEN [kind |-> "return", attribute |-> Some(die.attributes[name]),
          spec |-> None, warning |-> None]
    ELSE LET spec == specification(die)
         IN  IF ~IsNone(spec.die)
             THEN [kind |-> "recurse", attribute |-> None,
                   spec |-> spec.die, warning |-> None]
             ELSE [kind |-> "return", attribute |-> None,
                   spec |-> None, warning |-> spec.warning]

\* FunctionInfo._get_attribute_value_recursive(name), the call at nesting
\* depth `depth`: [raised, value, warning]. raised: the recursion passed
\* the interpreter's limit (RuntimeError). value: attr.value, or None.
\* warning: the offset a specification of the chain did not resolve.
\* after_frame continues from what the frame at that depth found.
RECURSIVE get_attribute_value_recursive(_, _, _)
after_frame(fr, attribute, depth) ==
    IF fr.kind = "return"
    THEN [raised |-> FALSE, value |-> fr.attribute, warning |-> fr.warning]
    ELSE IF depth >= MaxDepth
    THEN [raised |-> TRUE, value |-> None, warning |-> None]
    ELSE get_attribute_value_recursive(Val(fr.spec), attribute, depth + 1)

get_attribute_value_recursive(die, attribute, depth) ==
    after_frame(attribute_frame(die, attribute), attribute, depth)

\* The cached properties, each as the function its body applies to what
\* _get_attribute_value_recursive returned.
name(value) == value

filename(die, value) == get_filename(dwarf[die.cu], OrZero(value))

line(value) == value

linkage_name(value) == value

inline_enum(value) == OrZero(value)

\* is_inlined without DW_INL_declared_inlined.
is_inlined_not_declared(enum) == enum = 1

is_inlined(enum) == enum \in {1, 3}

declared_inline(enum) == enum \in {2, 3}

\* The properties a caller may read, and the attribute each one resolves.
Properties ==
    {"name", "filename", "line", "linkage_name", "inline_enum",
     "is_inlined", "declared_inline"}

property_attribute(prop) ==
    CASE prop = "name" -> "DW_AT_name"
      [] prop = "filename" -> "DW_AT_decl_file"
      [] prop = "line" -> "DW_AT_decl_line"
      [] prop = "linkage_name" -> "DW_AT_linkage_name"
      [] prop \in {"inline_enum", "is_inlined", "declared_inline"} -> "DW_AT_inline"

\* The value of property `prop` of FunctionInfo(die), given what the walk
\* over its attribute returned.
property_value(die, prop, value) ==
    CASE prop = "name" -> name(value)
      [] prop = "filename" -> filename(die, value)
      [] prop = "line" -> line(value)
      [] prop = "linkage_name" -> linkage_name(value)
      [] prop = "inline_enum" -> inline_enum(value)
      [] prop = "is_inlined" -> is_inlined(inline_enum(value))
      [] prop = "declared_inline" -> declared_inline(inline_enum(value))

\* Reading property `prop` of FunctionInfo(die): [raised, value, warning].
property_of_walk(die, prop, r) ==
    [raised |-> r.raised,
     value |-> IF r.raised THEN None ELSE property_value(die, prop, r.value),
     warning |-> r.warning]

property(die, prop) ==
    property_of_walk(die, prop,
        get_attribute_value_recursive(die, property_attribute(prop), 1))

\* FunctionInfo.cmp_tuple, of a FunctionInfo whose properties resolve
cmp_tuple(die) ==
    <<property(die, "filename").value, property(die, "line").value,
      property(die, "linkage_name").value>>

\* The hash of an object that defines none: of its identity.
FunctionInfo_hash_identity(die) == <<die.cu, die.offset>>

\* FunctionInfo.__hash__: hash(self.linkage_name). Equal strings hash
\* alike; the model takes the string for its hash.
FunctionInfo_hash(die) == property(die, "linkage_name").value

\* FunctionInfo.__eq__
FunctionInfo_eq(die, other) == cmp_tuple(die) = cmp_tuple(other)

\* a < b of two optional strings, as Python 2 orders them: None is smaller
\* than every string.
option_str_less(a, b) ==
    IF IsNone(a) THEN ~IsNone(b)
    ELSE IF IsNone(b) THEN FALSE
    ELSE StrLess(Val(a), Val(b))

\* a < b of two optional integers, as Python 2 orders them: None is smaller
\* than every integer.
option_int_less(a, b) ==
    IF IsNone(a) THEN ~IsNone(b)
    ELSE IF IsNone(b) THEN FALSE
    ELSE Val(a) < Val(b)

\* a < b of two tuples (filename, line, linkage_name): the first position
\* where they differ decides.
tuple_less(a, b) ==
    IF a[1] # b[1] THEN option_str_less(a[1], b[1])
    ELSE IF a[2] # b[2] THEN option_int_less(a[2], b[2])
    ELSE option_str_less(a[3], b[3])

\* __lt__ on the linkage names alone.
FunctionInfo_lt_linkage_name(die, other) ==
    option_str_less(property(die, "linkage_name").value,
                    property(other, "linkage_name").value)

\* FunctionInfo.__lt__
FunctionInfo_lt(die, other) == tuple_less(cmp_tuple(die), cmp_tuple(other))

\* c++filt's answer for a symbol it demangles: the text on its standard
\* output, one line.
cxxfilt(symbol) == symbol \o <<"(", ")", "\n">>

\* FunctionInfo.linkage_name_unmangled, when c++filt exits with 0
linkage_name_unmangled(die) ==
    strip(cxxfilt(Val(property(die, "linkage_name").value)))

-----------------------------------------------------------------------------
(* The binaries the model reads.  Every unit starts with its top DIE, 11    *)
(* bytes after the unit's start; the first unit starts at 0, the second at  *)
(* 50.  A reference to offset 99 meets no DIE of either unit.               *)

Opt(S) == {None} \cup {Some(v) : v \in S}

NoAttributes ==
    [DW_AT_name |-> None, DW_AT_decl_file |-> None, DW_AT_decl_line |-> None,
     DW_AT_linkage_name |-> None, DW_AT_inline |-> None,
     DW_AT_specification |-> None, DW_AT_abstract_origin |-> None,
     DW_AT_call_file |-> None, DW_AT_call_line |-> None]

\* The attributes of a DIE, from the optional value of each.
Attributes(opts) ==
    [n \in {m \in DOMAIN opts : ~IsNone(opts[m])} |-> Val(opts[n])]

DIE(cu, offset, tag, opts) ==
    [cu |-> cu, offset |-> offset, tag |-> tag, attributes |-> Attributes(opts)]

Subprogram(cu, offset, nm, file, ln, sym, inl, spec) ==
    DIE(cu, offset, "DW_TAG_subprogram",
        [NoAttributes EXCEPT !.DW_AT_name = nm, !.DW_AT_decl_file = file,
                             !.DW_AT_decl_line = ln, !.DW_AT_linkage_name = sym,
                             !.DW_AT_inline = inl, !.DW_AT_specification = spec])

InlinedSubroutine(cu, offset, origin, file, ln) ==
    DIE(cu, offset, "DW_TAG_inlined_subroutine",
        [NoAttributes EXCEPT !.DW_AT_abstract_origin = origin,
                             !.DW_AT_call_file = file, !.DW_AT_call_line = ln])

TopDIE(cu, offset, comp_dir) ==
    [cu |-> cu, offset |-> offset, tag |-> "DW_TAG_compile_unit",
     attributes |-> [DW_AT_comp_dir |-> comp_dir]]

\* The first unit, compiled in /w, and the second, compiled in /w/b.
Unit1(dies) ==
    [index |-> 1, cu_offset |-> 0,
     dies |-> <<TopDIE(1, 11, <<"/", "w">>)>> \o dies]

Unit2(dies) ==
    [index |-> 2, cu_offset |-> 50,
     dies |-> <<TopDIE(2, 61, <<"/", "w", "/", "b">>)>> \o dies]

F == <<"f">>
G == <<"g">>

\* The binaries of the report: two subprograms in the first unit, the second
\* of which may name the first as its specification, and one in the second.
ReportBinaries ==
    {<<Unit1(<<Subprogram(1, 20, Some(<<"n">>), Some(f1), l1, s1, Some(1), None),
               Subprogram(1, 30, None, f2, l2, Some(s2), Some(3), p2)>>),
       Unit2(<<Subprogram(2, 70, Some(<<"n">>), Some(f3), Some(1), Some(s3), Some(i3), None)>>)>> :
        f1 \in {1, 2}, l1 \in Opt(1..MaxLine), s1 \in Opt({F}),
        f2 \in Opt({1}), l2 \in Opt({MaxLine}), s2 \in {F, G}, p2 \in Opt({20, 30, 99}),
        f3 \in {1, 2}, s3 \in {F, G}, i3 \in {1, 2}}

\* The command lines: any of these --ignore lists, with or without
\* --demangle and --declaration.
IgnoreLists ==
    {<<>>, << <<"/", "u">> >>, << <<"/", "w", "/">>, <<"/", "u", "v">> >>}

CommandLines ==
    [ignore : IgnoreLists, demangle : BOOLEAN, declaration : BOOLEAN]

-----------------------------------------------------------------------------
(* main: the report. *)

\* What a printed line is: a warning, a line of the report, or the start of
\* a line of the report whose end was never printed.
Printed(kind, text) == [kind |-> kind, text |-> text]

\* print 'WARNING: No die at offset', offset -- when the walk met a
\* specification that does not resolve, and this FunctionInfo has not
\* evaluated (and cached) that specification before.
warning_lines(warned, warning) ==
    IF ~warned /\ ~IsNone(warning)
    THEN <<Printed("warning", format_int(Val(warning)))>>
    ELSE <<>>

\* iter_functions(cu), of every unit in turn: the subprogram DIEs
RECURSIVE iter_functions(_, _)
iter_functions(dw, i) ==
    IF i > Len(dw) THEN <<>>
    ELSE SelectSeq(dw[i].dies, LAMBDA die : die.tag = "DW_TAG_subprogram")
         \o iter_functions(dw, i + 1)

\* The warning of the first of two walks that met one.
first_warning(a, b) == IF IsNone(a) THEN b ELSE a

\* The filters of iter_inlined on one FunctionInfo, in the order the
\* generators apply them, given what reading is_inlined, filename and
\* linkage_name gives: [exc, keep, warning].
filters(inl, fil, sym) ==
    IF inl.raised
    THEN [exc |-> "RuntimeError", keep |-> FALSE, warning |-> None]
    ELSE IF ~inl.value
    THEN [exc |-> "", keep |-> FALSE, warning |-> inl.warning]
    ELSE IF fil.raised
    THEN [exc |-> "RuntimeError", keep |-> FALSE, warning |-> inl.warning]
    ELSE IF ~TruthyStr(fil.value)
    THEN [exc |-> "", keep |-> FALSE,
          warning |-> first_warning(inl.warning, fil.warning)]
    ELSE IF Len(args.ignore) > 0 /\ startswith_any(Val(fil.value), args.ignore)
    THEN [exc |-> "", keep |-> FALSE,
          warning |-> first_warning(inl.warning, fil.warning)]
    ELSE IF sym.raised
    THEN [exc |-> "RuntimeError", keep |-> FALSE,
          warning |-> first_warning(inl.warning, fil.warning)]
    ELSE [exc |-> "", keep |-> TruthyStr(sym.value),
          warning |-> first_warning(first_warning(inl.warning, fil.warning),
                                    sym.warning)]

classify(die) ==
    filters(property(die, "is_inlined"), property(die, "filename"),
            property(die, "linkage_name"))

\* The first evaluation of cmp_tuple of a FunctionInfo [die, warned]: its
\* line is resolved. [exc, out, info]
line_resolved(info, ln) ==
    IF ln.raised
    THEN [exc |-> "RuntimeError", out |-> <<>>, info |-> info]
    ELSE [exc |-> "", out |-> warning_lines(info.warned, ln.warning),
          info |-> [info EXCEPT !.warned = @ \/ ~IsNone(ln.warning)]]

eval_cmp_tuple(info) == line_resolved(info, property(info.die, "line"))

prepend_out(out, r) == [r EXCEPT !.out = out \o @]

\* set.add(info): the members with info's hash are compared with it, in
\* the order they were added, until one is equal; with none equal info is
\* added. A comparison evaluates cmp_tuple of the member (m), then of info
\* (n). [exc, out, members], scanning from member i.
RECURSIVE set_add(_, _, _)
compared(members, i, info, m, n) ==
    IF m.exc # ""
    THEN [exc |-> m.exc, out |-> <<>>, members |-> members]
    ELSE IF n.exc # ""
    THEN [exc |-> n.exc, out |-> m.out,
          members |-> [members EXCEPT ![i] = m.info]]
    ELSE IF FunctionInfo_eq(members[i].die, info.die)
    THEN [exc |-> "", out |-> m.out \o n.out,
          members |-> [members EXCEPT ![i] = m.info]]
    ELSE prepend_out(m.out \o n.out,
                     set_add([members EXCEPT ![i] = m.info], i + 1, n.info))

set_add(members, i, info) ==
    IF i > Len(members)
    THEN [exc |-> "", out |-> <<>>, members |-> Append(members, info)]
    ELSE IF FunctionInfo_hash(members[i].die) # FunctionInfo_hash(info.die)
    THEN set_add(members, i + 1, info)
    ELSE compared(members, i, info, eval_cmp_tuple(members[i]),
                  eval_cmp_tuple(info))

\* The comparisons of a sort of two or more FunctionInfos evaluate
\* cmp_tuple of each; of a shorter list, of none. [exc, out, members]
RECURSIVE eval_all(_, _)
evaluated(members, i, m) ==
    IF m.exc # ""
    THEN [exc |-> m.exc, out |-> <<>>, members |-> members]
    ELSE prepend_out(m.out, eval_all([members EXCEPT ![i] = m.info], i + 1))

eval_all(members, i) ==
    IF Len(members) < 2 \/ i > Len(members)
    THEN [exc |-> "", out |-> <<>>, members |-> members]
    ELSE evaluated(members, i, eval_cmp_tuple(members[i]))

RECURSIVE insert_sorted(_, _)
insert_sorted(list, info) ==
    IF Len(list) = 0 THEN <<info>>
    ELSE IF FunctionInfo_lt(info.die, Head(list).die) THEN <<info>> \o list
    ELSE <<Head(list)>> \o insert_sorted(Tail(list), info)

\* sorted(list): ascending under FunctionInfo.__lt__, equal elements in
\* their order in list.
RECURSIVE sorted(_)
sorted(list) ==
    IF Len(list) = 0 THEN <<>>
    ELSE insert_sorted(sorted(SubSeq(list, 1, Len(list) - 1)), list[Len(list)])

\* What set() does with a FunctionInfo the filters classified as c.
drawn(die, c) ==
    IF c.exc = "" /\ c.keep
    THEN prepend_out(warning_lines(FALSE, c.warning),
                     set_add(inlined, 1,
                             [die |-> die, warned |-> ~IsNone(c.warning)]))
    ELSE [exc |-> c.exc, out |-> warning_lines(FALSE, c.warning),
          members |-> inlined]

\* '%s:%i' % (func.filename, func.line), printed with a trailing comma:
\* [exc, out, text], given what resolving the line gave (ln).
declaration_text(func, ln) ==
    IF ~args.declaration THEN [exc |-> "", out |-> <<>>, text |-> <<>>]
    ELSE IF ln.exc # "" THEN [exc |-> ln.exc, out |-> <<>>, text |-> <<>>]
    ELSE IF IsNone(property(func.die, "line").value)
    THEN [exc |-> "TypeError", out |-> ln.out, text |-> <<>>]
    ELSE [exc |-> "", out |-> ln.out,
          text |-> format_str(property(func.die, "filename").value)
                   \o <<":">>
                   \o format_int(Val(property(func.die, "line").value))
                   \o <<" ">>]

\* The symbol printed for func.
symbol_text(func) ==
    IF args.demangle THEN linkage_name_unmangled(func.die)
    ELSE Val(property(func.die, "linkage_name").value)

\* One FunctionInfo drawn from iter_inlined by set(): the filters, then,
\* for one that passes, set.add.
IterInlinedStep(added) ==
    /\ stdout' = stdout \o added.out
    /\ inlined' = added.members
    /\ exc' = added.exc
    /\ pc' = IF added.exc # "" THEN "error" ELSE "iter_inlined"
    /\ todo' = Tail(todo)

IterInlined ==
    /\ pc = "iter_inlined"
    /\ Len(todo) > 0
    /\ IterInlinedStep(drawn(Head(todo), classify(Head(todo))))
    /\ UNCHANGED <<dwarf, args, functions, frame, result, site>>

\* functions = sorted(set(...)), once iter_inlined is exhausted. The set
\* is listed in the order its members were added.
SortedStep(e) ==
    /\ stdout' = stdout \o e.out
    /\ exc' = e.exc
    /\ IF e.exc # ""
       THEN /\ pc' = "error"
            /\ UNCHANGED <<functions, todo>>
       ELSE /\ functions' = sorted(e.members)
            /\ todo' = functions'
            /\ pc' = IF Len(e.members) = 0 THEN "exit" ELSE "print"

Sorted ==
    /\ pc = "iter_inlined"
    /\ Len(todo) = 0
    /\ SortedStep(eval_all(inlined, 1))
    /\ UNCHANGED <<dwarf, args, inlined, frame, result, site>>

\* One turn of the loop over functions: the declaration when asked for,
\* then the symbol, demangled by c++filt when asked for. c++filt exits
\* with 0 (filt_ok) or the call raises CalledProcessError.
PrintFuncStep(declaration, filt_ok) ==
    IF declaration.exc # ""
    THEN /\ stdout' = stdout \o declaration.out
         /\ exc' = declaration.exc
         /\ pc' = "error"
         /\ todo' = todo
    ELSE IF args.demangle /\ ~filt_ok
    THEN /\ stdout' = stdout \o declaration.out \o
                (IF args.declaration
                 THEN <<Printed("partial", declaration.text)>> ELSE <<>>)
         /\ exc' = "CalledProcessError"
         /\ pc' = "error"
         /\ todo' = todo
    ELSE /\ stdout' = stdout \o declaration.out \o
                <<Printed("function",
                          declaration.text \o symbol_text(Head(todo)))>>
         /\ exc' = ""
         /\ pc' = IF Len(todo) = 1 THEN "exit" ELSE "print"
         /\ todo' = Tail(todo)

PrintFunc(filt_ok) ==
    /\ pc = "print"
    /\ Len(todo) > 0
    /\ PrintFuncStep(declaration_text(Head(todo), eval_cmp_tuple(Head(todo))),
                     filt_ok)
    /\ UNCHANGED <<dwarf, args, inlined, functions, frame, result, site>>

NoFrame == [top |-> None, prop |-> "", die |-> None, depth |-> 0]
NoSite == [cu |-> 0, die |-> 0, origin |-> None]
NoArgs == [ignore |-> <<>>, demangle |-> FALSE, declaration |-> FALSE]

Init ==
    /\ dwarf \in ReportBinaries
    /\ args \in CommandLines
    /\ pc = "iter_inlined"
    /\ exc = ""
    /\ stdout = <<>>
    /\ todo = iter_functions(dwarf, 1)
    /\ inlined = <<>>
    /\ functions = <<>>
    /\ frame = NoFrame
    /\ result = None
    /\ site = NoSite

Next ==
    \/ IterInlined
    \/ Sorted
    \/ \E filt_ok \in (IF args.demangle THEN BOOLEAN ELSE {TRUE}) :
           PrintFunc(filt_ok)

Spec == Init /\ [][Next]_vars

-----------------------------------------------------------------------------
(* A property of a FunctionInfo read on its own, one call of                *)
(* _get_attribute_recursive at a time.                                      *)

\* The binaries of the walks: the first unit holds its top DIE alone, the
\* second two subprograms, A at offset 20 of the unit and B at 30. Each
\* carries any of its own name, file, line and linkage name, and as its
\* specification nothing, 0, A, B, or 99, where no DIE is.
IdentityBinaries ==
    {<<Unit1(<<>>),
       Unit2(<<Subprogram(2, 70, n1, f1, l1, s1, None, p1),
               Subprogram(2, 80, n2, f2, l2, s2, None, p2)>>)>> :
        n1 \in Opt({<<"a">>}), f1 \in Opt({1}), l1 \in Opt({1}), s1 \in Opt({F}),
        p1 \in Opt({0, 20, 30, 99}),
        n2 \in Opt({<<"b">>}), f2 \in Opt({2}), l2 \in Opt({MaxLine}),
        s2 \in Opt({G}), p2 \in Opt({0, 20, 30, 99})}

\* The same two subprograms with any DW_AT_inline, or none, on each.
InlineBinaries ==
    {<<Unit1(<<>>),
       Unit2(<<Subprogram(2, 70, None, None, None, None, i1, p1),
               Subprogram(2, 80, None, None, None, None, i2, p2)>>)>> :
        i1 \in Opt(0..3), p1 \in Opt({0, 20, 30, 99}),
        i2 \in Opt(0..3), p2 \in Opt({0, 20, 30, 99})}

\* The same two subprograms, named or not, and a call site at offset 40
\* whose abstract origin is A, B, nowhere, or absent.
CallSiteBinaries ==
    {<<Unit1(<<>>),
       Unit2(<<Subprogram(2, 70, n1, None, None, None, None, p1),
               Subprogram(2, 80, n2, None, None, None, None, p2),
               InlinedSubroutine(2, 90, o3, f3, l3)>>)>> :
        n1 \in Opt({<<"a">>}), p1 \in Opt({0, 20, 30, 99}),
        n2 \in Opt({<<"b">>}), p2 \in Opt({0, 20, 30, 99}),
        o3 \in Opt({20, 30, 99}), f3 \in Opt({1}), l3 \in Opt({MaxLine})}

\* func.<prop> is read, of the FunctionInfo of DIE d of unit cu: the first
\* call of _get_attribute_recursive is entered.
Access(cu, d, prop) ==
    /\ pc = "idle"
    /\ pc' = "frame"
    /\ frame' = [top |-> Some(dwarf[cu].dies[d]), prop |-> prop,
                 die |-> Some(dwarf[cu].dies[d]), depth |-> 1]
    /\ UNCHANGED <<dwarf, args, exc, stdout, todo, inlined, functions, result,
                   site>>

\* What the call at hand finds.
current_frame == attribute_frame(Val(frame.die), property_attribute(frame.prop))

\* The DIE lacks the attribute and has a specification: the call recurses.
Recurse ==
    /\ pc = "frame"
    /\ current_frame.kind = "recurse"
    /\ frame.depth < MaxDepth
    /\ frame' = [frame EXCEPT !.die = current_frame.spec, !.depth = @ + 1]
    /\ UNCHANGED <<dwarf, args, pc, exc, stdout, todo, inlined, functions,
                   result, site>>

\* The recursion has reached the interpreter's limit: RuntimeError.
Overflow ==
    /\ pc = "frame"
    /\ current_frame.kind = "recurse"
    /\ frame.depth >= MaxDepth
    /\ pc' = "error"
    /\ exc' = "RuntimeError"
    /\ UNCHANGED <<dwarf, args, stdout, todo, inlined, functions, frame,
                   result, site>>

\* The call returns the DIE's attribute, or None: every call returns what
\* it was returned, and the property has its value.
Return ==
    /\ pc = "frame"
    /\ current_frame.kind = "return"
    /\ pc' = "returned"
    /\ result' = Some(property_value(Val(frame.top), frame.prop,
                                     current_frame.attribute))
    /\ stdout' = stdout \o warning_lines(FALSE, current_frame.warning)
    /\ UNCHANGED <<dwarf, args, exc, todo, inlined, functions, frame, site>>

-----------------------------------------------------------------------------
(* process(cu): where each function was inlined. *)

\* process(cu) is called: its loop stands before the unit's first DIE.
Process(cu) ==
    /\ pc = "idle"
    /\ pc' = "process"
    /\ site' = [cu |-> cu, die |-> 1, origin |-> None]
    /\ UNCHANGED <<dwarf, args, exc, stdout, todo, inlined, functions, frame,
                   result>>

site_die == dwarf[site.cu].dies[site.die]

\* get_die_call_coords(die), its call line present
get_die_call_coords(die) ==
    format_str(get_die_call_file(die)) \o <<":">>
    \o format_int(die.attributes["DW_AT_call_line"])

\* '%s inlined at %s' % (name, coords)
inlined_at(nm, coords) ==
    nm \o <<" ", "i", "n", "l", "i", "n", "e", "d", " ", "a", "t", " ">> \o coords

\* One turn of the loop over the unit's DIEs, up to the while loop: the
\* loop ends, or passes a DIE that is no call site, or looks for the DIE
\* at the call site's abstract origin.
ProcessDie ==
    /\ pc = "process"
    /\ IF site.die > Len(dwarf[site.cu].dies)
       THEN pc' = "exit" /\ UNCHANGED <<site, exc>>
       ELSE IF site_die.tag # "DW_TAG_inlined_subroutine"
       THEN pc' = "process" /\ site' = [site EXCEPT !.die = @ + 1]
            /\ UNCHANGED exc
       ELSE IF "DW_AT_abstract_origin" \notin DOMAIN site_die.attributes
       THEN pc' = "error" /\ exc' = "KeyError" /\ UNCHANGED site
       ELSE /\ pc' = "while"
            /\ site' = [site EXCEPT !.origin =
                            get_die_at_offset(dwarf[site_die.cu],
                                site_die.attributes["DW_AT_abstract_origin"])]
            /\ UNCHANGED exc
    /\ UNCHANGED <<dwarf, args, stdout, todo, inlined, functions, frame, result>>

\* The loop stopping at the first DIE with a name.
while_test_unnamed(origin) ==
    /\ "DW_AT_specification" \in DOMAIN origin.attributes
    /\ "DW_AT_name" \notin DOMAIN origin.attributes

\* The test of the while loop: 'DW_AT_specification' in origin.attributes
while_test(origin) == "DW_AT_specification" \in DOMAIN origin.attributes

\* The test of the while loop and, when it holds, its body: origin becomes
\* the DIE at origin's specification. The test reads origin.attributes,
\* which None does not have: AttributeError.
ProcessWhile ==
    /\ pc = "while"
    /\ IF IsNone(site.origin) THEN TRUE ELSE while_test(Val(site.origin))
    /\ IF IsNone(site.origin)
       THEN pc' = "error" /\ exc' = "AttributeError" /\ UNCHANGED site
       ELSE /\ site' = [site EXCEPT !.origin =
                            get_die_at_offset(dwarf[site_die.cu],
                                Val(site.origin).attributes["DW_AT_specification"])]
            /\ UNCHANGED <<pc, exc>>
    /\ UNCHANGED <<dwarf, args, stdout, todo, inlined, functions, frame, result>>

\* The while loop has ended at a DIE without specification: its name and
\* the call site's coordinates are printed.
ProcessPrint ==
    /\ pc = "while"
    /\ ~IsNone(site.origin)
    /\ ~while_test(Val(site.origin))
    /\ IF ~("DW_AT_name" \in DOMAIN Val(site.origin).attributes
            /\ "DW_AT_call_line" \in DOMAIN site_die.attributes)
       THEN pc' = "error" /\ exc' = "KeyError" /\ UNCHANGED <<site, stdout>>
       ELSE /\ stdout' = Append(stdout,
                   Printed("inlined",
                           inlined_at(Val(site.origin).attributes["DW_AT_name"],
                                      get_die_call_coords(site_die))))
            /\ pc' = "process"
            /\ site' = [site EXCEPT !.die = @ + 1, !.origin = None]
            /\ UNCHANGED exc
    /\ UNCHANGED <<dwarf, args, todo, inlined, functions, frame, result>>

InitWalk ==
    /\ dwarf \in IdentityBinaries \cup InlineBinaries \cup CallSiteBinaries
    /\ args = NoArgs
    /\ pc = "idle"
    /\ exc = ""
    /\ stdout = <<>>
    /\ todo = <<>>
    /\ inlined = <<>>
    /\ functions = <<>>
    /\ frame = NoFrame
    /\ result = None
    /\ site = NoSite

NextWalk ==
    \/ \E cu \in 1..Len(dwarf) : \E d \in 2..Len(dwarf[cu].dies) :
           \E prop \in Properties : Access(cu, d, prop)
    \/ Recurse
    \/ Overflow
    \/ Return
    \/ \E cu \in 1..Len(dwarf) : Process(cu)
    \/ ProcessDie
    \/ ProcessWhile
    \/ ProcessPrint

SpecWalk == InitWalk /\ [][NextWalk]_vars

\* The reads alone, of the binaries with any DW_AT_inline. The interpreter
\* runs the one thread of the program until it ends: a call that is
\* entered is carried out.
InitRead ==
    /\ InitWalk
    /\ dwarf \in InlineBinaries

NextRead ==
    \/ \E cu \in 1..Len(dwarf) : \E d \in 2..Len(dwarf[cu].dies) :
           \E prop \in Properties : Access(cu, d, prop)
    \/ Recurse
    \/ Overflow
    \/ Return

SpecRead ==
    InitRead /\ [][NextRead]_vars /\ WF_vars(Recurse \/ Overflow \/ Return)

-----------------------------------------------------------------------------
(* The chain of specifications, stated on the DIEs.                         *)

\* The DIEs of the unit of die.
UnitDies(die) == {dwarf[die.cu].dies[i] : i \in 1..Len(dwarf[die.cu].dies)}

\* d's DW_AT_specification is the offset of d2 from the start of their unit.
Refers(d, d2) ==
    /\ "DW_AT_specification" \in DOMAIN d.attributes
    /\ d2.cu = d.cu
    /\ d2.offset = dwarf[d.cu].cu_offset + d.attributes["DW_AT_specification"]

\* The chains e, spec(e), spec(spec(e)), ... that repeat no DIE.
ChainsFrom(e) ==
    {c \in UNION {[1..n -> UnitDies(e)] : n \in 1..Cardinality(UnitDies(e))} :
        /\ c[1] = e
        /\ \A i \in 1..(Len(c) - 1) : Refers(c[i], c[i + 1])}

\* The chains from e to the first DIE that carries attribute a.
CarrierChains(e, a) ==
    {c \in ChainsFrom(e) :
        /\ a \in DOMAIN c[Len(c)].attributes
        /\ \A i \in 1..(Len(c) - 1) : a \notin DOMAIN c[i].attributes}

\* The chains from e, through DIEs without attribute a, to a DIE that
\* carries it or refers to no DIE of the unit.
EndingChains(e, a) ==
    {c \in ChainsFrom(e) :
        /\ \A i \in 1..(Len(c) - 1) : a \notin DOMAIN c[i].attributes
        /\ \/ a \in DOMAIN c[Len(c)].attributes
           \/ \A d \in UnitDies(e) : ~Refers(c[Len(c)], d)}

\* The value of attribute a on the first DIE of e's chain that carries it,
\* None when none does.
Carried(e, a) ==
    IF CarrierChains(e, a) = {} THEN None
    ELSE LET c == CHOOSE c \in CarrierChains(e, a) : TRUE
         IN  Some(c[Len(c)].attributes[a])

\* C1: once read, each of name, filename, line and linkage_name of a
\* FunctionInfo holds what the first DIE on the chain of specifications
\* that carries the attribute holds -- the file as the path of that index
\* in the unit's file table -- and None when no DIE of the chain has it.
C1_FirstOnChain ==
    pc = "returned" =>
        LET e == Val(frame.top)
        IN  /\ frame.prop = "name" => result = Some(Carried(e, "DW_AT_name"))
            /\ frame.prop = "line" => result = Some(Carried(e, "DW_AT_decl_line"))
            /\ frame.prop = "linkage_name" =>
                   result = Some(Carried(e, "DW_AT_linkage_name"))
            /\ frame.prop = "filename" =>
                   result = Some(IF IsNone(Carried(e, "DW_AT_decl_file")) THEN None
                                 ELSE get_filename(dwarf[e.cu],
                                          Val(Carried(e, "DW_AT_decl_file"))))

\* A FunctionInfo that carries its linkage name itself has its file from
\* its specification.
C1_Witness ==
    /\ pc = "returned"
    /\ frame.prop = "filename"
    /\ frame.depth = 2
    /\ "DW_AT_linkage_name" \in DOMAIN Val(frame.top).attributes
    /\ "DW_AT_decl_line" \in DOMAIN Val(frame.top).attributes
    /\ result = Some(Some(<<"/", "u", "v", "/", "a">>))

\* C2: inline_enum is the DW_AT_inline of the first DIE of the chain that
\* carries one and 0 when none does; is_inlined holds exactly for 1 and 3,
\* declared_inline exactly for 2 and 3.
C2_InlineEnum ==
    pc = "returned" =>
        LET carried == Carried(Val(frame.top), "DW_AT_inline")
            enum == IF IsNone(carried) THEN 0 ELSE Val(carried)
        IN  /\ frame.prop = "inline_enum" => result = Some(enum)
            /\ frame.prop = "is_inlined" => result = Some(enum \in {1, 3})
            /\ frame.prop = "declared_inline" => result = Some(enum \in {2, 3})

\* A FunctionInfo without DW_AT_inline is inlined by its specification's 3.
C2_Witness ==
    /\ pc = "returned"
    /\ frame.prop = "is_inlined"
    /\ frame.depth = 2
    /\ get_attribute_value(Val(frame.die), "DW_AT_inline") = Some(3)
    /\ result = Some(TRUE)

\* C9: a read whose chain ends -- at a DIE that carries the attribute, or
\* has no specification, or whose specification meets no DIE -- returns,
\* after one call for each DIE of that chain; and a read returns only on
\* such a chain, so never on a cycle of DIEs without the attribute.
C9_Termination ==
    /\ (pc = "frame" /\ EndingChains(Val(frame.top),
                                    property_attribute(frame.prop)) # {})
           ~> (pc = "returned")
    /\ [](pc = "returned" =>
            \E c \in EndingChains(Val(frame.top), property_attribute(frame.prop)) :
                Len(c) = frame.depth /\ c[Len(c)] = Val(frame.die))

\* A read on a cycle of specifications has made more calls than the unit
\* has DIEs, and is about to make another.
C9_Witness ==
    /\ pc = "frame"
    /\ frame.depth > Cardinality(UnitDies(Val(frame.top)))
    /\ EndingChains(Val(frame.top), property_attribute(frame.prop)) = {}
    /\ current_frame.kind = "recurse"

-----------------------------------------------------------------------------
(* process(cu). *)

\* The call site process has just printed, and the DIE at its abstract
\* origin.
JustPrinted ==
    /\ pc = "process"
    /\ site.die > 1
    /\ dwarf[site.cu].dies[site.die - 1].tag = "DW_TAG_inlined_subroutine"

PrintedSite == dwarf[site.cu].dies[site.die - 1]

OriginOf(c) ==
    CHOOSE d \in UnitDies(c) :
        d.offset = dwarf[c.cu].cu_offset + c.attributes["DW_AT_abstract_origin"]

\* The call site's own coordinates.
CallCoords(c) ==
    format_str(IF "DW_AT_call_file" \in DOMAIN c.attributes
               THEN get_filename(dwarf[c.cu], c.attributes["DW_AT_call_file"])
               ELSE None)
    \o <<":">> \o format_int(c.attributes["DW_AT_call_line"])

\* C10 as claimed: the name process prints for a call site is the name of
\* the first DIE that has one on the chain from the call site's abstract
\* origin -- the name FunctionInfo resolves for the origin -- with the call
\* site's own coordinates.
C10_NameOfFirstNamed ==
    JustPrinted =>
        stdout[Len(stdout)].text =
            inlined_at(Val(Carried(OriginOf(PrintedSite), "DW_AT_name")),
                       CallCoords(PrintedSite))

\* C10 as amended: the name process prints for a call site is the name of
\* the last DIE of the chain from the call site's abstract origin, the
\* first that has no DW_AT_specification, whether or not a DIE before it
\* has a name; the coordinates are the call site's own.
C10_NameOfLast ==
    JustPrinted =>
        \E c \in ChainsFrom(OriginOf(PrintedSite)) :
            /\ "DW_AT_specification" \notin DOMAIN c[Len(c)].attributes
            /\ stdout[Len(stdout)].text =
                   inlined_at(c[Len(c)].attributes["DW_AT_name"],
                              CallCoords(PrintedSite))

\* process has printed the name of the specification of an origin that
\* has a name of its own.
C10_Witness ==
    /\ JustPrinted
    /\ "DW_AT_name" \in DOMAIN OriginOf(PrintedSite).attributes
    /\ \E d \in UnitDies(PrintedSite) :
           Refers(OriginOf(PrintedSite), d) /\ d # OriginOf(PrintedSite)

\* C7: a specification or an abstract origin that is the offset of no DIE
\* of the unit does not make the operation fail: the read of a property
\* returns, with a warning printed, and process does not end on the
\* reference it could not follow.
C7_ReferenceRecovered ==
    /\ (pc = "frame" /\ current_frame.kind = "return"
            /\ ~IsNone(current_frame.warning)) => ENABLED Return
    /\ (pc = "returned" /\ TruthyInt(get_attribute_value(Val(frame.die),
                                         "DW_AT_specification"))
            /\ property_attribute(frame.prop) \notin DOMAIN Val(frame.die).attributes)
           => (Len(stdout) > 0 /\ stdout[Len(stdout)].kind = "warning")
    /\ ~(pc = "error" /\ exc = "AttributeError" /\ IsNone(site.origin))

-----------------------------------------------------------------------------
(* main. *)

SubprogramDies ==
    UNION {{dwarf[u].dies[i] : i \in 2..Len(dwarf[u].dies)} : u \in 1..Len(dwarf)}

\* The resolved value of a property, None when the walk does not end.
Resolved(d, prop) == property(d, prop).value

IsPrefixOf(p, s) == Len(p) <= Len(s) /\ SubSeq(s, 1, Len(p)) = p

Ignored(d) ==
    \E k \in 1..Len(args.ignore) :
        IsPrefixOf(args.ignore[k], Val(Resolved(d, "filename")))

\* An inlined subprogram with a declaration file and a link symbol.
Identified(d) ==
    /\ ~property(d, "is_inlined").raised
    /\ Resolved(d, "is_inlined")
    /\ TruthyStr(Resolved(d, "filename"))
    /\ TruthyStr(Resolved(d, "linkage_name"))

Survivors == {d \in SubprogramDies : Identified(d) /\ ~Ignored(d)}

Reported(d) ==
    \E i \in 1..Len(functions) : cmp_tuple(functions[i].die) = cmp_tuple(d)

FunctionLines == SelectSeq(stdout, LAMBDA l : l.kind = "function")

\* The line of the report for f: '<file>:<line> ' with --declaration, then
\* the link symbol, demangled with --demangle.
ExpectedLine(f) ==
    (IF args.declaration
     THEN Val(Resolved(f.die, "filename")) \o <<":">>
          \o format_int(Val(Resolved(f.die, "line"))) \o <<" ">>
     ELSE <<>>)
    \o Val(Resolved(f.die, "linkage_name"))
    \o (IF args.demangle THEN <<"(", ")">> ELSE <<>>)

\* C3: no two members of the set, and no two functions of the report, have
\* the same (filename, line, linkage_name); every surviving subprogram's
\* tuple is in the report, and a report printed to its end has one line for
\* each distinct tuple of the survivors, whatever the number of subprograms,
\* of one unit or of several, that resolve to it.
C3_OneLinePerTuple ==
    /\ \A j \in 1..Len(inlined) : \A i \in 1..(j - 1) :
           cmp_tuple(inlined[i].die) # cmp_tuple(inlined[j].die)
    /\ \A j \in 1..Len(functions) : \A i \in 1..(j - 1) :
           cmp_tuple(functions[i].die) # cmp_tuple(functions[j].die)
    /\ pc \in {"print", "exit"} => \A d \in Survivors : Reported(d)
    /\ pc = "exit" =>
           Len(FunctionLines) = Cardinality({cmp_tuple(d) : d \in Survivors})

\* The report is printed to its end, and two survivors of different units
\* have the same tuple.
C3_Witness ==
    /\ pc = "exit"
    /\ \E d, e \in Survivors :
           d.cu # e.cu /\ cmp_tuple(d) = cmp_tuple(e)

\* (file, line, symbol) of a is at or before that of b: file first, then
\* line, a missing line before any present one, then symbol.
LineBefore(x, y) ==
    \/ IsNone(x) /\ ~IsNone(y)
    \/ ~IsNone(x) /\ ~IsNone(y) /\ Val(x) < Val(y)

AtOrBefore(a, b) ==
    \/ StrLess(Val(a[1]), Val(b[1]))
    \/ /\ a[1] = b[1]
       /\ \/ LineBefore(a[2], b[2])
          \/ a[2] = b[2] /\ (a[3] = b[3] \/ StrLess(Val(a[3]), Val(b[3])))

\* C4: the functions of the report are in non-decreasing order of
\* (filename, line, linkage_name), file first, then line with a missing
\* line before any present one, then symbol; and the lines of the report
\* are printed in the order of the functions.
C4_Sorted ==
    /\ \A j \in 1..Len(functions) : \A i \in 1..(j - 1) :
           AtOrBefore(cmp_tuple(functions[i].die), cmp_tuple(functions[j].die))
    /\ \A k \in 1..Len(FunctionLines) :
           FunctionLines[k].text = ExpectedLine(functions[k])

\* The report is printed to its end; two of its functions are of one file,
\* the first without a line and the second with one, and two are in the
\* reverse of the order in which their subprograms were read.
C4_Witness ==
    /\ pc = "exit"
    /\ \E i \in 1..Len(functions) - 1 :
           /\ Resolved(functions[i].die, "filename")
                  = Resolved(functions[i + 1].die, "filename")
           /\ IsNone(Resolved(functions[i].die, "line"))
           /\ ~IsNone(Resolved(functions[i + 1].die, "line"))
    /\ \E i \in 1..Len(functions) - 1 :
           \/ functions[i].die.cu > functions[i + 1].die.cu
           \/ /\ functions[i].die.cu = functions[i + 1].die.cu
              /\ functions[i].die.offset > functions[i + 1].die.offset

\* C5: no member of the set and no function of the report has a filename
\* of which one of the --ignore strings is a prefix, character by
\* character; an inlined subprogram with a file and a link symbol whose
\* filename starts with none of them is in the report.
C5_IgnoredPrefixes ==
    /\ \A i \in 1..Len(inlined) : ~Ignored(inlined[i].die)
    /\ \A i \in 1..Len(functions) : ~Ignored(functions[i].die)
    /\ pc \in {"print", "exit"} =>
           \A d \in SubprogramDies : (Identified(d) /\ ~Ignored(d)) => Reported(d)

\* The report is printed to its end with two --ignore strings: a subprogram
\* is dropped for the second, which ends inside a path segment of its
\* file, and another is reported.
C5_Witness ==
    /\ pc = "exit"
    /\ Len(args.ignore) = 2
    /\ \E d \in SubprogramDies :
           /\ Identified(d)
           /\ ~IsPrefixOf(args.ignore[1], Val(Resolved(d, "filename")))
           /\ IsPrefixOf(args.ignore[2], Val(Resolved(d, "filename")))
           /\ Resolved(d, "filename") = Some(<<"/", "u", "v", "/", "a">>)
    /\ Len(functions) > 0

\* C6: every function of the report gets its line, with --declaration and
\* without, with --demangle and without, whether or not it has a line: a
\* run that neither the demangler nor an endless walk ended has printed one
\* line for each function of the report.
C6_OneLinePerFunction ==
    (pc = "exit" \/ (pc = "error" /\ exc \notin {"RuntimeError", "CalledProcessError"}))
        => Len(FunctionLines) = Len(functions)

\* C8: a failure of c++filt for one symbol does not end the run, and every
\* other function of the report has its line.
C8_DemanglerFailureLocal ==
    /\ ~(pc = "error" /\ exc = "CalledProcessError")
    /\ exc = "CalledProcessError" => Len(FunctionLines) >= Len(functions) - 1

=============================================================================
